---- MODULE Spec2Model ----
(***************************************************************************)
(* Model of csrs_dashboard.py: the batch generator (load_data ->           *)
(* preprocess_data -> get_metrics -> render_dashboard) and the script the  *)
(* generated page embeds (calculateMetrics, filterData, resetFilters).     *)
(*                                                                         *)
(* Cell values.  A numeric cell, a timestamp and a computed statistic are  *)
(* all values [k, n, d]: k = "num" is the rational n/d (d > 0, lowest      *)
(* terms), k = "nan" is pandas' NaN/NaT, k = "inf" is +inf (n = 1) or      *)
(* -inf (n = -1), k = "text" is a cell holding text where a number or a    *)
(* date is expected, k = "empty" is the empty string '' of the payload.    *)
(* A timestamp is the number of seconds since 00:00:00 of day 0, and day 0 *)
(* is Saturday 2024-12-28, so that the model's days straddle a week        *)
(* boundary and a year boundary.  A text cell is a sequence of characters; *)
(* the empty sequence is the null text cell (read_excel gives NaN for an   *)
(* empty cell, and the payload writes it as '').                           *)
(***************************************************************************)
EXTENDS Integers, Sequences, FiniteSets, TLC

VARIABLES
    excel,         \* the workbook EXCEL_FILE on disk
    quicksort,     \* the order in which this build's numpy quicksort leaves
                   \* equal keys (sort_values gives no `kind`, lines 145-147)
    pc,            \* position of the generator in __main__, then of the page
    df,            \* the DataFrame `df` of __main__
    metrics,       \* the dict `metrics` of __main__
    html,          \* the document written to HTML_FILE (payload, controls, cards)
    tz,            \* the browser's offset from UTC, seconds east of Greenwich
    originalData,  \* const originalData of the page script (line 569)
    currentData,   \* let currentData (line 570)
    controls,      \* values of the five selects and the two date inputs
    shown,         \* what updateDashboard last drew
    history        \* history variable, no state of the program: the snapshot
                   \* drawn at load, and how far the session is into the
                   \* sequence load, one selection, reset

vars == <<excel, quicksort, pc, df, metrics, html, tz, originalData, currentData, controls, shown, history>>

----------------------------------------------------------------------------
(* Column names (ASCII spellings of the source's names). *)

ColClave == "Clave"
ColEstado == "Estado"
ColPr == "Pr"
ColT == "T"
ColPersona == "Persona asignada"
ColDesarrollador == "Desarrollador"
ColCreada == "Creada"
ColPlan == "Fecha Planificada de Liberacion"
ColReal == "Fecha Real de Liberacion"
ColDelay == "Liberacion retrasada por"
ColDev30 == "Estado Desarrollo > 30 dias"
ColDev60 == "Desarrollo y liberada > 60 Dias"
ColCreadaWeek == "Creada_week"

CategoricalCols == {ColEstado, ColPr, ColT, ColPersona, ColDesarrollador}
date_cols == {ColCreada, ColPlan, ColReal}
numeric_cols == {ColDelay, ColDev30, ColDev60}

----------------------------------------------------------------------------
(* Values. *)

NaN == [k |-> "nan", n |-> 0, d |-> 1]
PosInf == [k |-> "inf", n |-> 1, d |-> 1]
NegInf == [k |-> "inf", n |-> -1, d |-> 1]
BadText == [k |-> "text", n |-> 0, d |-> 1]
EmptyStr == [k |-> "empty", n |-> 0, d |-> 1]
Num(x) == [k |-> "num", n |-> x, d |-> 1]

Abs(x) == IF x < 0 THEN -x ELSE x

RECURSIVE Gcd(_, _)
Gcd(a, b) == IF b = 0 THEN a ELSE Gcd(b, a % b)

\* the rational a/b (b > 0) in lowest terms
Rat(a, b) == LET g == Gcd(Abs(a), b) IN [k |-> "num", n |-> a \div g, d |-> b \div g]

IsNum(x) == x.k = "num"
isnull(x) == x.k = "nan"
\* IEEE comparison a < b; false when either side is NaN
Lt(a, b) ==
    IF a.k = "nan" \/ b.k = "nan" THEN FALSE
    ELSE IF a.k = "inf" THEN a.n < 0 /\ ~(b.k = "inf" /\ b.n < 0)
    ELSE IF b.k = "inf" THEN b.n > 0
    ELSE a.n * b.d < b.n * a.d
Gt0(x) == Lt(Num(0), x)
Leq(a, b) == a = b \/ Lt(a, b)

\* a value rounded to one decimal place, in tenths (half away from zero is
\* not distinguished from half to even: the model's ties do not reach it)
Round1(x) ==
    IF x.k # "num" THEN x
    ELSE Num((20 * x.n + x.d) \div (2 * x.d))

RECURSIVE SeqSum(_)
SeqSum(s) == IF s = <<>> THEN 0 ELSE s[1].n + SeqSum(Tail(s))

RECURSIVE SeqMax(_)
SeqMax(s) ==
    IF Len(s) = 1 THEN s[1]
    ELSE LET m == SeqMax(Tail(s)) IN IF Lt(s[1], m) THEN m ELSE s[1]

RECURSIVE SeqMin(_)
SeqMin(s) ==
    IF Len(s) = 1 THEN s[1]
    ELSE LET m == SeqMin(Tail(s)) IN IF Lt(m, s[1]) THEN m ELSE s[1]

Range(s) == {s[i] : i \in DOMAIN s}

\* the rows of s at the indices in `keep`, in order
SubSeqAt(s, keep) ==
    [j \in 1..Cardinality(keep) |->
        s[CHOOSE i \in keep : Cardinality({k \in keep : k < i}) = j - 1]]

\* the column `col` of a table as a sequence (df[col])
Column(t, col) == [i \in DOMAIN t.rows |-> t.rows[i][col]]

----------------------------------------------------------------------------
(* pandas Series operations used by get_metrics. *)

NotNull(x) == ~isnull(x)
IsInf(x) == x.k = "inf"

\* s.replace([np.inf, -np.inf], np.nan)
ReplaceInf(s) == [i \in DOMAIN s |-> IF IsInf(s[i]) THEN NaN ELSE s[i]]
\* s.dropna()
dropna(s) == SelectSeq(s, NotNull)
\* s.mean() of a series without inf: NaN when no value is left
FiniteMean(s) ==
    LET v == dropna(s) IN IF v = <<>> THEN NaN ELSE Rat(SeqSum(v), Len(v))
\* s.mean(), skipna: inf propagates, +inf with -inf is NaN
SeriesMean(s) ==
    LET v == dropna(s) IN
    IF v = <<>> THEN NaN
    ELSE IF PosInf \in Range(v) /\ NegInf \in Range(v) THEN NaN
    ELSE IF PosInf \in Range(v) THEN PosInf
    ELSE IF NegInf \in Range(v) THEN NegInf
    ELSE Rat(SeqSum(v), Len(v))
\* s.max(), skipna
SeriesMax(s) == LET v == dropna(s) IN IF v = <<>> THEN NaN ELSE SeqMax(v)
\* s.min(), skipna
SeriesMin(s) == LET v == dropna(s) IN IF v = <<>> THEN NaN ELSE SeqMin(v)
\* (s > 0).sum()
CountPositive(s) == Len(SelectSeq(s, Gt0))
\* s.isnull().all()
AllNull(s) == \A i \in DOMAIN s : isnull(s[i])

----------------------------------------------------------------------------
(* Calendar.  Day 0 is Saturday 2024-12-28; day 4 is Wednesday 2025-01-01. *)

SecPerDay == 24 * 60 * 60

\* day number of a timestamp
DayOf(ts) == ts \div SecPerDay
\* Date.getDay(): 0 = Sunday ... 6 = Saturday
getDay(day) == (day + 6) % 7
\* Date.getFullYear()
getFullYear(day) == IF day < 4 THEN 2024 ELSE 2025
\* day number of 1 January of a year (2024 is a leap year)
Jan1(year) == IF year = 2024 THEN 4 - 366 ELSE 4
\* the Monday that starts the Monday-to-Sunday week of a day (freq 'W' is W-SUN)
MondayOf(day) == day - ((getDay(day) + 6) % 7)

\* Series.dt.to_period('W').astype(str): the label of the week of a timestamp,
\* and the string 'NaT' for a null timestamp
to_period_W_str(x) ==
    IF isnull(x) THEN <<"NaT", 0, 0>>
    ELSE <<"period", MondayOf(DayOf(x.n)), MondayOf(DayOf(x.n)) + 6>>

\* df.groupby(labels).size().to_dict(): label -> number of rows
GroupSize(labels) ==
    [l \in Range(labels) |-> Cardinality({i \in DOMAIN labels : labels[i] = l})]

\* s.value_counts().to_dict(): null text is dropped
value_counts(s) ==
    [v \in Range(s) \ {<<>>} |-> Cardinality({i \in DOMAIN s : s[i] = v})]

----------------------------------------------------------------------------
(* preprocess_data (lines 47-90). *)

\* pd.to_datetime(errors='coerce') and pd.to_numeric(errors='coerce') of a cell
Coerce(x) == IF x.k = "text" THEN NaN ELSE x

\* lines 62-76
ConvertColumns(t) ==
    [t EXCEPT !.rows = [i \in DOMAIN t.rows |->
        [c \in t.cols |->
            IF c \in date_cols \cup numeric_cols THEN Coerce(t.rows[i][c])
            ELSE t.rows[i][c]]]]

\* (real - planned).dt.days.astype(float): whole days, floor; NaN if either is NaT
DeltaDays(real, planned) ==
    IF isnull(real) \/ isnull(planned) THEN NaN
    ELSE Num((real.n - planned.n) \div SecPerDay)

\* line 80: the condition under which the delay column is (re)computed
DelayMissing(t) == ColDelay \notin t.cols \/ AllNull(Column(t, ColDelay))

\* lines 80-88: the delay cell of row r after preprocessing
DerivedDelay(t, r) ==
    IF DelayMissing(t)
    THEN IF ColReal \in t.cols /\ ColPlan \in t.cols
         THEN DeltaDays(r[ColReal], r[ColPlan])
         ELSE NaN
    ELSE r[ColDelay]

preprocess_data(raw) ==
    LET t == ConvertColumns(raw) IN
    [cols |-> t.cols \cup {ColDelay},
     rows |-> [i \in DOMAIN t.rows |->
        [c \in t.cols \cup {ColDelay} |->
            IF c = ColDelay THEN DerivedDelay(t, t.rows[i]) ELSE t.rows[i][c]]]]

----------------------------------------------------------------------------
(* get_metrics (lines 93-171). *)

\* number of entries of an outlier list: head(10), slice(0, 10)
TopN == 10

\* stable sort of rows by key, descending (line 658: Array.prototype.sort is
\* stable; the keys of getTop10 are never null)
SortDescBy(rows, key) ==
    LET n == Len(rows)
        nonnull == {j \in 1..n : ~isnull(key[j])}
        rank(i) ==
            IF isnull(key[i])
            THEN Cardinality(nonnull) + Cardinality({j \in 1..n : j < i /\ isnull(key[j])}) + 1
            ELSE Cardinality({j \in nonnull : Lt(key[i], key[j])})
                 + Cardinality({j \in nonnull : j < i /\ key[j] = key[i]}) + 1
    IN [p \in 1..n |-> rows[CHOOSE i \in 1..n : rank(i) = p]]

\* the orders a sort that is not stable can leave equal keys in: the order
\* of the input, as a stable sort does, or another one (here the reverse)
TieOrders == {"input order", "reverse order"}

\* df.sort_values(col, ascending=False): kind defaults to 'quicksort', which
\* does not promise the order of equal keys; null keys come last, in input order
sort_values(rows, key) ==
    LET n == Len(rows)
        nonnull == {j \in 1..n : ~isnull(key[j])}
        before(j, i) == IF quicksort = "input order" THEN j < i ELSE j > i
        rank(i) ==
            IF isnull(key[i])
            THEN Cardinality(nonnull) + Cardinality({j \in 1..n : j < i /\ isnull(key[j])}) + 1
            ELSE Cardinality({j \in nonnull : Lt(key[i], key[j])})
                 + Cardinality({j \in nonnull : before(j, i) /\ key[j] = key[i]}) + 1
    IN [p \in 1..n |-> rows[CHOOSE i \in 1..n : rank(i) = p]]

\* s.head(10)
head(s) == IF Len(s) <= TopN THEN s ELSE SubSeq(s, 1, TopN)

\* a mean that lets an infinite value through
Mutant_avg_of(t, col) == SeriesMean(Column(t, col))
\* line 101 (and 105, 108): mean over the finite, non-null values
avg_of(t, col) == FiniteMean(ReplaceInf(Column(t, col)))
\* a late percentage taken over the records that have a delay
Mutant_pct_late(t) ==
    IF Len(dropna(Column(t, ColDelay))) > 0
    THEN Rat(100 * CountPositive(Column(t, ColDelay)), Len(dropna(Column(t, ColDelay))))
    ELSE Num(0)
\* line 103
pct_late(t) ==
    IF Len(t.rows) > 0
    THEN Rat(100 * CountPositive(Column(t, ColDelay)), Len(t.rows))
    ELSE Num(0)
\* lines 106, 109
num_of(t, col) == CountPositive(Column(t, col))
\* line 111
max_delay(t) == SeriesMax(Column(t, ColDelay))
\* a minimum taken over every delay, as max_delay is
Mutant_valid_min_values(t) == dropna(Column(t, ColDelay))
\* line 112
valid_min_values(t) == dropna(SelectSeq(Column(t, ColDelay), Gt0))
\* line 113
min_delay(t) ==
    IF valid_min_values(t) # <<>> THEN SeriesMin(valid_min_values(t)) ELSE Num(0)
\* lines 117-121
by_col(t, col) == IF col \in t.cols THEN value_counts(Column(t, col)) ELSE << >>
\* lines 125-126: groupby(col)[delay].mean(); null keys are dropped
delay_by(t, col) ==
    IF col \in t.cols
    THEN [v \in Range(Column(t, col)) \ {<<>>} |->
            SeriesMean(Column([t EXCEPT !.rows = SelectSeq(t.rows, LAMBDA r : r[col] = v)], ColDelay))]
    ELSE << >>
\* lines 131-141: the weekly trend of a date column
HasDates(t, col) == col \in t.cols /\ ~AllNull(Column(t, col))
\* a trend that is not taken again once the table carries the week column
Mutant_trend_of(t, col) ==
    IF HasDates(t, col) /\ ColCreadaWeek \notin t.cols
    THEN GroupSize([i \in DOMAIN t.rows |-> to_period_W_str(t.rows[i][col])])
    ELSE << >>
trend_of(t, col) ==
    IF HasDates(t, col)
    THEN GroupSize([i \in DOMAIN t.rows |-> to_period_W_str(t.rows[i][col])])
    ELSE << >>
\* line 132: the column get_metrics adds to its argument
df_after_get_metrics(t) ==
    IF HasDates(t, ColCreada)
    THEN [cols |-> t.cols \cup {ColCreadaWeek},
          rows |-> [i \in DOMAIN t.rows |->
             [c \in t.cols \cup {ColCreadaWeek} |->
                IF c = ColCreadaWeek THEN to_period_W_str(t.rows[i][ColCreada])
                ELSE t.rows[i][c]]]]
    ELSE t
\* lines 145-147
top_of(t, col) ==
    IF col \in t.cols /\ ~AllNull(Column(t, col))
    THEN head(sort_values(t.rows, Column(t, col)))
    ELSE << >>

\* a snapshot that keeps NaN
Mutant_OrZero(x) == x
\* lines 151-158: `x if not pd.isna(x) else 0.0`
OrZero(x) == IF isnull(x) THEN Num(0) ELSE x

\* df[col] of a column the table lacks raises KeyError (lines 105, 108)
RaisesKeyError(t) == ~({ColDelay, ColDev30, ColDev60} \subseteq t.cols)

get_metrics(t) ==
    IF RaisesKeyError(t) THEN [error |-> "KeyError"]
    ELSE LET t2 == df_after_get_metrics(t) IN
    [error |-> "",
     total_csrs |-> Len(t.rows),
     avg_delay |-> OrZero(avg_of(t, ColDelay)),
     pct_late |-> pct_late(t),
     avg_dev_gt30 |-> OrZero(avg_of(t, ColDev30)),
     num_dev_gt30 |-> num_of(t, ColDev30),
     avg_devlib_gt60 |-> OrZero(avg_of(t, ColDev60)),
     num_devlib_gt60 |-> num_of(t, ColDev60),
     max_delay |-> OrZero(max_delay(t)),
     min_delay |-> OrZero(min_delay(t)),
     by_estado |-> by_col(t, ColEstado),
     by_pr |-> by_col(t, ColPr),
     by_tipo |-> by_col(t, ColT),
     by_persona |-> by_col(t, ColPersona),
     by_dev |-> by_col(t, ColDesarrollador),
     delay_by_persona |-> delay_by(t, ColPersona),
     delay_by_dev |-> delay_by(t, ColDesarrollador),
     created_trend |-> trend_of(t, ColCreada),
     resolved_trend |-> trend_of(t, ColReal),
     top_late |-> top_of(t2, ColDelay),
     top_dev_gt30 |-> top_of(t2, ColDev30),
     top_devlib_gt60 |-> top_of(t2, ColDev60)]

----------------------------------------------------------------------------
(* render_dashboard (lines 179-864): the payload and the controls. *)

RECURSIVE replace(_, _, _)
\* str.replace(old, new) for a one-character `old`
replace(s, old, new) ==
    IF s = << >> THEN << >>
    ELSE (IF s[1] = old THEN new ELSE <<s[1]>>) \o replace(Tail(s), old, new)

\* lines 175-177
html_escape(s) ==
    replace(replace(replace(replace(replace(s,
        "&", <<"&", "a", "m", "p", ";">>),
        "<", <<"&", "l", "t", ";">>),
        ">", <<"&", "g", "t", ";">>),
        "\"", <<"&", "q", "u", "o", "t", ";">>),
        "'", <<"&", "#", "0", "3", "9", ";">>)

\* lines 189-199: one cell of the payload.  A timestamp stands for its
\* '%Y-%m-%d %H:%M:%S' string, EmptyStr for ''.
PayloadCell(c, x) ==
    IF c \in date_cols THEN (IF isnull(x) THEN EmptyStr ELSE x)
    ELSE IF c \in numeric_cols THEN (IF isnull(x) \/ IsInf(x) THEN Num(0) ELSE x)
    ELSE IF c = ColCreadaWeek THEN x
    ELSE html_escape(x)

\* lines 188-204
full_data_dict(t) ==
    [i \in DOMAIN t.rows |-> [c \in t.cols |-> PayloadCell(c, t.rows[i][c])]]

\* lines 207-213: the option values of a select (the browser decodes the
\* escaped value attribute back to the source text)
filter_options(t, col) ==
    IF col \in t.cols THEN Range(Column(t, col)) \ {<< >>} ELSE {}

\* strftime('%Y-%m-%d') of a timestamp: the value of a date input is a day
DateStr(x) == Num(DayOf(x.n))

\* lines 219-220
min_release_date(t) ==
    IF ~AllNull(Column(t, ColReal)) THEN DateStr(SeriesMin(Column(t, ColReal))) ELSE EmptyStr
max_release_date(t) ==
    IF ~AllNull(Column(t, ColReal)) THEN DateStr(SeriesMax(Column(t, ColReal))) ELSE EmptyStr

\* line 219 reads df['Fecha Real de Liberacion'] unguarded
RenderRaises(t) == ColReal \notin t.cols

NoFilters ==
    [filterEstado |-> << >>, filterPr |-> << >>, filterTipo |-> << >>,
     filterPersona |-> << >>, filterDesarrollador |-> << >>,
     startDate |-> EmptyStr, endDate |-> EmptyStr]

render_dashboard(t, m) ==
    [payload |-> full_data_dict(t),
     options |-> [c \in CategoricalCols |-> filter_options(t, c)],
     controls |-> [NoFilters EXCEPT !.startDate = min_release_date(t),
                                    !.endDate = max_release_date(t)],
     cards |-> m]

NoHtml == [payload |-> << >>, options |-> [c \in CategoricalCols |-> {}],
           controls |-> NoFilters, cards |-> [error |-> "none"]]

----------------------------------------------------------------------------
(* The page script (lines 566-858). *)

\* parseFloat(d[key]) || 0: a missing key, '' and NaN all give 0
ParseFloatOr0(d, key) ==
    IF key \in DOMAIN d /\ d[key].k = "num" THEN d[key] ELSE Num(0)

\* `if (val)` for a text or date cell: undefined and '' are falsy
Truthy(d, key) ==
    key \in DOMAIN d /\ (IF key \in date_cols THEN d[key] # EmptyStr ELSE d[key] # << >>)

\* lines 577, 584, 589
ValuesOf(data, key) == [i \in DOMAIN data |-> ParseFloatOr0(data[i], key)]
\* lines 578-579: every value of ValuesOf is finite, so validDelays is all of them
js_avg(data, key) ==
    IF Len(data) > 0 THEN Rat(SeqSum(ValuesOf(data, key)), Len(data)) ELSE Num(0)
\* line 580
js_pct_late(data) ==
    IF Len(data) > 0
    THEN Rat(100 * CountPositive(ValuesOf(data, ColDelay)), Len(data))
    ELSE Num(0)
\* line 581
js_max_delay(data) == IF Len(data) > 0 THEN SeqMax(ValuesOf(data, ColDelay)) ELSE Num(0)
\* line 582
js_min_delay(data) == IF Len(data) > 0 THEN SeqMin(ValuesOf(data, ColDelay)) ELSE Num(0)
\* lines 587, 592
js_num(data, key) == CountPositive(ValuesOf(data, key))

\* lines 595-601
getCounts(arr, key) ==
    [v \in {arr[i][key] : i \in {j \in DOMAIN arr : Truthy(arr[j], key)}} |->
        Cardinality({i \in DOMAIN arr : Truthy(arr[i], key) /\ arr[i][key] = v})]

\* lines 603-620
getAvgDelay(arr, key) ==
    [v \in {arr[i][key] : i \in {j \in DOMAIN arr : Truthy(arr[j], key)}} |->
        LET grp == SelectSeq(arr, LAMBDA o : Truthy(o, key) /\ o[key] = v)
        IN Rat(SeqSum(ValuesOf(grp, ColDelay)), Len(grp))]

\* ceil(a / b) for b > 0
CeilDiv(a, b) == -((-a) \div b)

\* lines 636-644: the week label of a timestamp.  `date - firstDayOfYear` is
\* a difference of two local times, so the browser's offset cancels out.
weekStr(ts) ==
    LET year == getFullYear(DayOf(ts))
        firstDayOfYear == Jan1(year)
        secOfYear == ts - firstDayOfYear * SecPerDay
        week == CeilDiv(secOfYear + (getDay(firstDayOfYear) + 1) * SecPerDay, 7 * SecPerDay)
    IN <<"week", year, week>>

\* lines 632-650
getTrend(arr, dateKey) ==
    LET dated == SelectSeq(arr, LAMBDA o : Truthy(o, dateKey))
    IN GroupSize([i \in DOMAIN dated |-> weekStr(dated[i][dateKey].n)])

\* lines 659-665: the projection of a row in an outlier list
Get(d, key) == IF key \in DOMAIN d THEN d[key] ELSE "undefined"
Projection(d, sortKey) ==
    [Clave |-> Get(d, ColClave), value |-> Get(d, sortKey),
     Persona |-> Get(d, ColPersona), Desarrollador |-> Get(d, ColDesarrollador)]

\* lines 656-666
getTop10(arr, sortKey) ==
    IF Len(arr) = 0 THEN << >>
    ELSE LET sorted == head(SortDescBy(arr, ValuesOf(arr, sortKey)))
         IN [i \in DOMAIN sorted |-> Projection(sorted[i], sortKey)]

\* lines 573-695
calculateMetrics(data) ==
    [error |-> "",
     total_csrs |-> Len(data),
     avg_delay |-> js_avg(data, ColDelay),
     pct_late |-> js_pct_late(data),
     avg_dev_gt30 |-> js_avg(data, ColDev30),
     num_dev_gt30 |-> js_num(data, ColDev30),
     avg_devlib_gt60 |-> js_avg(data, ColDev60),
     num_devlib_gt60 |-> js_num(data, ColDev60),
     max_delay |-> js_max_delay(data),
     min_delay |-> js_min_delay(data),
     by_estado |-> getCounts(data, ColEstado),
     by_pr |-> getCounts(data, ColPr),
     by_tipo |-> getCounts(data, ColT),
     by_persona |-> getCounts(data, ColPersona),
     by_dev |-> getCounts(data, ColDesarrollador),
     delay_by_persona |-> getAvgDelay(data, ColPersona),
     delay_by_dev |-> getAvgDelay(data, ColDesarrollador),
     created_trend |-> getTrend(data, ColCreada),
     resolved_trend |-> getTrend(data, ColReal),
     top_late |-> getTop10(data, ColDelay),
     top_dev_gt30 |-> getTop10(data, ColDev30),
     top_devlib_gt60 |-> getTop10(data, ColDev60)]

\* new Date('YYYY-MM-DD HH:MM:SS'): local time, as seconds since the epoch (UTC)
DateLocal(ts, offset) == ts - offset
\* new Date('YYYY-MM-DD'): a date-only string is midnight UTC
DateOnly(day) == day * SecPerDay
\* Date.setHours(23, 59, 59, 999): the last second of the LOCAL day of an
\* instant (payload times are whole seconds, so the 999 ms decide nothing)
setHoursEndOfDay(instant, offset) ==
    DayOf(instant + offset) * SecPerDay + (SecPerDay - 1) - offset
\* Date.toISOString().split('T')[0]: the UTC day of an instant
toISODate(instant) == Num(DayOf(instant))

\* lines 774-778: one categorical test
Match(d, key, selected) ==
    selected = << >> \/ (key \in DOMAIN d /\ d[key] = selected)

\* lines 780-793
matchDate(d, c, offset) ==
    LET hasStart == c.startDate # EmptyStr
        hasEnd == c.endDate # EmptyStr
        startDate == DateOnly(c.startDate.n)
        endDate == setHoursEndOfDay(DateOnly(c.endDate.n), offset)
        releaseDate == DateLocal(d[ColReal].n, offset)
    IN IF Truthy(d, ColReal)
       THEN ~(hasStart /\ releaseDate < startDate) /\ ~(hasEnd /\ releaseDate > endDate)
       ELSE ~(hasStart \/ hasEnd)

\* line 795
Passes(d, c, offset) ==
    /\ Match(d, ColEstado, c.filterEstado)
    /\ Match(d, ColPr, c.filterPr)
    /\ Match(d, ColT, c.filterTipo)
    /\ Match(d, ColPersona, c.filterPersona)
    /\ Match(d, ColDesarrollador, c.filterDesarrollador)
    /\ matchDate(d, c, offset)

\* lines 772-796: the new currentData
filterData(data, c, offset) == SelectSeq(data, LAMBDA d : Passes(d, c, offset))

\* lines 808-825 and 837-850: the date inputs after a reset and after load
ReleaseInstants(data, offset) ==
    LET dated == SelectSeq(data, LAMBDA o : Truthy(o, ColReal))
    IN [i \in DOMAIN dated |-> Num(DateLocal(dated[i][ColReal].n, offset))]
minReleaseDate(data, offset) ==
    LET r == ReleaseInstants(data, offset)
    IN IF r = << >> THEN EmptyStr ELSE toISODate(SeqMin(r).n)
maxReleaseDate(data, offset) ==
    LET r == ReleaseInstants(data, offset)
    IN IF r = << >> THEN EmptyStr ELSE toISODate(SeqMax(r).n)

\* lines 801-825: the controls after resetFilters
resetControls(data, offset) ==
    [NoFilters EXCEPT !.startDate = minReleaseDate(data, offset),
                      !.endDate = maxReleaseDate(data, offset)]

----------------------------------------------------------------------------
(* Inputs: the workbooks the generator is run on. *)

MaxDelays == 3      \* rows of a workbook that varies the delay column
MaxBig == 11        \* rows of a workbook with more rows than an outlier list
MaxNulls == 2       \* null cells in a ranked column of such a workbook
MaxRows == 2        \* rows of a workbook that varies dates or groups
MaxMissing == 2     \* columns a workbook lacks
MaxDay == 2         \* last day a user can pick in a date input

AllCols == {ColClave} \cup CategoricalCols \cup date_cols \cup numeric_cols
OptionalCols == AllCols \ {ColClave}

Key(i) == <<"K", ToString(i)>>
At(day, hour) == Num(day * SecPerDay + hour * 60 * 60)

\* a row with every cell null
BlankRow(i) ==
    [c \in AllCols |->
        IF c = ColClave THEN Key(i)
        ELSE IF c \in CategoricalCols THEN << >> ELSE NaN]

\* row i of a workbook: the blank row overridden by the cells of `cells`
Row(i, cells) ==
    [c \in AllCols |-> IF c \in DOMAIN cells THEN cells[c] ELSE BlankRow(i)[c]]

Table(cols, rows) ==
    [cols |-> cols, rows |-> [i \in DOMAIN rows |-> [c \in cols |-> rows[i][c]]]]

SeqsUpTo(S, n) == UNION {[1..m -> S] : m \in 0..n}

DelayVals ==
    {NaN, PosInf, NegInf, Num(-3), Num(-1), Num(0), Num(2), Num(5), Num(7), Num(10)}

DelayTable(ds) == Table(AllCols, [i \in DOMAIN ds |-> Row(i, (ColDelay :> ds[i]))])

\* workbooks that vary only the delay column
DelayTables == {DelayTable(ds) : ds \in SeqsUpTo(DelayVals, MaxDelays)}

\* the two delay columns the specification gives as examples
ExampleTables ==
    {DelayTable(<<Num(-3), Num(0), Num(2), Num(7)>>),
     DelayTable(<<Num(5), Num(-1), Num(0), Num(10)>>)}

\* workbooks about as long as an outlier list and longer, with ties in the
\* ranked columns and nulls in the rows `nulls`
BigTables ==
    {Table(AllCols, [i \in 1..n |->
        Row(i, (ColDelay :> (IF i \in nulls THEN NaN ELSE Num(i % 3)))
            @@ (ColDev30 :> (IF i \in nulls THEN Num(i % 2) ELSE NaN))
            @@ (ColDev60 :> Num(i % 4)))]) :
        n \in (TopN - 1)..MaxBig,
        nulls \in {x \in SUBSET (1..MaxBig) : Cardinality(x) <= MaxNulls}}

\* workbooks that vary the source delay and the dates
DateCells ==
    {(ColDelay :> dl) @@ (ColPlan :> pl) @@ (ColReal :> re) @@ (ColCreada :> pl) :
        dl \in {NaN, Num(5), BadText},
        pl \in {NaN, At(1, 0)},
        re \in {NaN, At(3, 12)}}
DateTables ==
    {Table(AllCols, [i \in DOMAIN cs |-> Row(i, cs[i])]) : cs \in SeqsUpTo(DateCells, MaxRows)}

\* workbooks that vary the week of the dates: Sunday 2024-12-29, Monday
\* 2024-12-30, Wednesday 2025-01-01, Saturday 2025-01-04 at 00:00 and at noon
WeekCells ==
    {(ColCreada :> x) @@ (ColReal :> x) :
        x \in {NaN, At(1, 0), At(2, 12), At(4, 0), At(7, 0), At(7, 12)}}
WeekTables ==
    {Table(AllCols, [i \in DOMAIN cs |-> Row(i, cs[i])]) : cs \in SeqsUpTo(WeekCells, MaxRows)}

\* workbooks that vary the groups
GroupCells ==
    {(ColPersona :> pe) @@ (ColEstado :> es) @@ (ColDelay :> dl) :
        pe \in {<< >>, <<"A">>, <<"B">>},
        es \in {<< >>, <<"R", "&", "D">>},
        dl \in {NaN, Num(3)}}
GroupTables ==
    {Table(AllCols, [i \in DOMAIN cs |-> Row(i, cs[i])]) : cs \in SeqsUpTo(GroupCells, MaxRows)}

\* workbooks that lack some optional columns, with no row, a null row or a full row
FullCells ==
    (ColEstado :> <<"A">>) @@ (ColPr :> <<"H">>) @@ (ColT :> <<"U">>)
    @@ (ColPersona :> <<"P">>) @@ (ColDesarrollador :> <<"Q">>)
    @@ (ColCreada :> At(0, 9)) @@ (ColPlan :> At(1, 0)) @@ (ColReal :> At(2, 0))
    @@ (ColDelay :> Num(1)) @@ (ColDev30 :> Num(31)) @@ (ColDev60 :> Num(61))
ColumnTables ==
    {Table(AllCols \ missing, rows) :
        missing \in {x \in SUBSET OptionalCols : Cardinality(x) <= MaxMissing},
        rows \in {<< >>, <<BlankRow(1)>>, <<Row(1, FullCells)>>, <<Row(1, FullCells), BlankRow(2)>>}}

\* a workbook on disk: unreadable, or a table some of whose rows are hidden
Book(t, hidden) == [readable |-> TRUE, table |-> t, hidden |-> hidden]
Unreadable == [readable |-> FALSE, table |-> Table({}, << >>), hidden |-> {}]
HiddenBooks ==
    {Book(Table(AllCols, <<Row(1, FullCells), BlankRow(2)>>), h) : h \in SUBSET {1, 2}}

----------------------------------------------------------------------------
(* The generator, __main__ (lines 868-872). *)

NoTable == [cols |-> {}, rows |-> << >>]
NoMetrics == [error |-> "none"]

\* lines 28-36: the rows that are not hidden
load_data(book) ==
    [cols |-> book.table.cols,
     rows |-> SelectSeq(book.table.rows,
                 LAMBDA r : \A i \in book.hidden : book.table.rows[i] # r)]

NoHistory == [phase |-> "none", loaded |-> NoMetrics, selected |-> NoMetrics]

InitFrom(tables, orders) ==
    /\ \/ excel = Unreadable
       \/ excel \in HiddenBooks
       \/ \E t \in tables : excel = Book(t, {})
    /\ quicksort \in orders
    /\ pc = "load_data"
    /\ df = NoTable
    /\ metrics = NoMetrics
    /\ html = NoHtml
    /\ tz = 0
    /\ originalData = << >>
    /\ currentData = << >>
    /\ controls = NoFilters
    /\ shown = NoMetrics
    /\ history = NoHistory

PageVars == <<tz, originalData, currentData, controls, shown, history>>

\* a load whose failure is reported and passes an empty table on
Mutant_Main_load_data ==
    /\ pc = "load_data"
    /\ df' = (IF excel.readable THEN load_data(excel) ELSE Table(AllCols, << >>))
    /\ pc' = "preprocess_data"
    /\ UNCHANGED <<excel, quicksort, metrics, html, PageVars>>

\* line 869; lines 39-44: a workbook that cannot be read ends the run
Main_load_data ==
    /\ pc = "load_data"
    /\ IF excel.readable
       THEN df' = load_data(excel) /\ pc' = "preprocess_data"
       ELSE df' = df /\ pc' = "exited"
    /\ UNCHANGED <<excel, quicksort, metrics, html, PageVars>>

\* line 870
Main_preprocess_data ==
    /\ pc = "preprocess_data"
    /\ df' = preprocess_data(df)
    /\ pc' = "get_metrics"
    /\ UNCHANGED <<excel, quicksort, metrics, html, PageVars>>

\* line 871: get_metrics returns the snapshot and adds a column to df, or raises
Main_get_metrics ==
    /\ pc = "get_metrics"
    /\ metrics' = get_metrics(df)
    /\ IF RaisesKeyError(df)
       THEN df' = df /\ pc' = "crashed"
       ELSE df' = df_after_get_metrics(df) /\ pc' = "render_dashboard"
    /\ UNCHANGED <<excel, quicksort, html, PageVars>>

\* line 872
Main_render_dashboard ==
    /\ pc = "render_dashboard"
    /\ IF RenderRaises(df)
       THEN html' = html /\ pc' = "crashed"
       ELSE html' = render_dashboard(df, metrics) /\ pc' = "written"
    /\ UNCHANGED <<excel, quicksort, df, metrics, PageVars>>

NextGen ==
    \/ Main_load_data
    \/ Main_preprocess_data
    \/ Main_get_metrics
    \/ Main_render_dashboard

InitGen ==
    \/ InitFrom(DelayTables, TieOrders)
    \/ InitFrom(ExampleTables, TieOrders)
    \/ InitFrom(BigTables, TieOrders)
    \/ InitFrom(DateTables, TieOrders)
    \/ InitFrom(GroupTables, TieOrders)
    \/ InitFrom(ColumnTables, TieOrders)
    \/ InitFrom(WeekTables, TieOrders)
SpecGen == InitGen /\ [][NextGen]_vars

----------------------------------------------------------------------------
(* The page: the document opened in a browser. *)

\* offsets of the browser's time zone from UTC, in seconds: UTC-6, UTC, UTC+2
Offsets == {-6 * 60 * 60, 0, 2 * 60 * 60}

\* the select of each categorical column
SelectOf ==
    (ColEstado :> "filterEstado") @@ (ColPr :> "filterPr") @@ (ColT :> "filterTipo")
    @@ (ColPersona :> "filterPersona") @@ (ColDesarrollador :> "filterDesarrollador")

\* the days a user picks in a date input, and the cleared input
DateChoices == {EmptyStr} \cup {Num(day) : day \in 0..MaxDay}

\* the rows of the workbooks the page is generated from: two values of one
\* category (one of them with a character html_escape rewrites), every select
\* with an option, release dates at midnight and at noon, a row without dates
PageRows ==
    <<Row(1, (ColEstado :> <<"A">>) @@ (ColPr :> <<"H">>)
             @@ (ColReal :> At(1, 0)) @@ (ColDelay :> Num(3))),
      Row(2, (ColEstado :> <<"R", "&", "D">>) @@ (ColT :> <<"U">>)
             @@ (ColReal :> At(2, 12)) @@ (ColDelay :> Num(-1))),
      Row(3, (ColPersona :> <<"P">>) @@ (ColDesarrollador :> <<"Q">>)),
      Row(4, (ColEstado :> <<"A">>) @@ (ColReal :> At(2, 12)) @@ (ColDelay :> Num(0)))>>

PageTables == {Table(AllCols, SubSeqAt(PageRows, keep)) : keep \in SUBSET DOMAIN PageRows}

\* the browser parses the written document and runs the script's top level
\* (lines 569-570); the cards and tables show what the generator rendered
OpenPage ==
    /\ pc = "written"
    /\ tz' \in Offsets
    /\ originalData' = html.payload
    /\ currentData' = html.payload
    /\ controls' = html.controls
    /\ shown' = html.cards
    /\ pc' = "DOMContentLoaded"
    /\ UNCHANGED <<excel, quicksort, df, metrics, html, history>>

\* lines 832-856
OnDOMContentLoaded ==
    /\ pc = "DOMContentLoaded"
    /\ controls' = [controls EXCEPT !.startDate = minReleaseDate(originalData, tz),
                                    !.endDate = maxReleaseDate(originalData, tz)]
    /\ shown' = calculateMetrics(originalData)
    /\ pc' = "ready"
    /\ history' = [phase |-> "loaded", loaded |-> shown', selected |-> NoMetrics]
    /\ UNCHANGED <<excel, quicksort, df, metrics, html, tz, originalData, currentData>>

\* a filter that narrows the view it finds instead of the embedded records
Mutant_RunFilterData(c) ==
    /\ controls' = c
    /\ currentData' = filterData(currentData, c, tz)
    /\ shown' = calculateMetrics(filterData(currentData, c, tz))
    /\ UNCHANGED <<excel, quicksort, pc, df, metrics, html, tz, originalData>>

\* lines 755-798, run with the controls as they are after the user's change
RunFilterData(c) ==
    /\ controls' = c
    /\ currentData' = filterData(originalData, c, tz)
    /\ shown' = calculateMetrics(filterData(originalData, c, tz))
    /\ UNCHANGED <<excel, quicksort, pc, df, metrics, html, tz, originalData>>

\* onchange of a select (lines 228-260): the user picks 'All' or an option
OnChangeSelect ==
    /\ pc = "ready"
    /\ \E col \in CategoricalCols : \E v \in html.options[col] \cup {<< >>} :
          /\ RunFilterData([controls EXCEPT ![SelectOf[col]] = v])
          /\ history' = IF history.phase = "loaded" /\ v # << >>
                        THEN [history EXCEPT !.phase = "selected", !.selected = shown']
                        ELSE [history EXCEPT !.phase = "later", !.selected = NoMetrics]

\* onchange of a date input (lines 263, 267)
OnChangeDate ==
    /\ pc = "ready"
    /\ \E v \in DateChoices :
          \/ RunFilterData([controls EXCEPT !.startDate = v])
          \/ RunFilterData([controls EXCEPT !.endDate = v])
    /\ history' = [history EXCEPT !.phase = "later", !.selected = NoMetrics]

\* a reset that clears the controls and redraws the view it finds
Mutant_resetFilters ==
    /\ pc = "ready"
    /\ controls' = resetControls(originalData, tz)
    /\ currentData' = currentData
    /\ shown' = calculateMetrics(currentData)
    /\ history' = IF history.phase = "selected"
                  THEN [history EXCEPT !.phase = "selected, reset"]
                  ELSE [history EXCEPT !.phase = "later", !.selected = NoMetrics]
    /\ UNCHANGED <<excel, quicksort, pc, df, metrics, html, tz, originalData>>

\* lines 800-829
resetFilters ==
    /\ pc = "ready"
    /\ controls' = resetControls(originalData, tz)
    /\ currentData' = originalData
    /\ shown' = calculateMetrics(originalData)
    /\ history' = IF history.phase = "selected"
                  THEN [history EXCEPT !.phase = "selected, reset"]
                  ELSE [history EXCEPT !.phase = "later", !.selected = NoMetrics]
    /\ UNCHANGED <<excel, quicksort, pc, df, metrics, html, tz, originalData>>

NextPage ==
    \/ OpenPage
    \/ OnDOMContentLoaded
    \/ OnChangeSelect
    \/ OnChangeDate
    \/ resetFilters

\* no two records of a page workbook have the same ranked value, so the order
\* of ties decides nothing in them
Init == InitFrom(PageTables, {"input order"})
Next == NextGen \/ NextPage
Spec == Init /\ [][Next]_vars

----------------------------------------------------------------------------
(* Properties of the generator, checked under SpecGen. *)

\* get_metrics has returned a snapshot of df
Computed == metrics.error = ""

\* x > 0 for a delay: a positive number or +inf
StrictlyPositive(x) == (x.k = "num" /\ x.n > 0) \/ (x.k = "inf" /\ x.n > 0)

Delays == Column(df, ColDelay)
PositiveDelays == {Delays[i] : i \in {j \in DOMAIN Delays : StrictlyPositive(Delays[j])}}
PresentDelays == {Delays[i] : i \in {j \in DOMAIN Delays : Delays[j].k # "nan"}}

\* C2: min_delay is the least strictly positive delay, and 0.0 when no delay
\* is strictly positive; max_delay is the greatest of all the delays.
C2_MinOverPositiveMaxOverAll ==
    Computed =>
        /\ PositiveDelays = {} => metrics.min_delay = Num(0)
        /\ PositiveDelays # {} =>
              /\ metrics.min_delay \in PositiveDelays
              /\ \A x \in PositiveDelays : Leq(metrics.min_delay, x)
        /\ PresentDelays # {} =>
              /\ metrics.max_delay \in PresentDelays
              /\ \A x \in PresentDelays : Leq(x, metrics.max_delay)

\* the specification's example: delays [-3, 0, 2, 7] give min 2 and max 7
C2_Witness ==
    /\ Computed
    /\ Delays = <<Num(-3), Num(0), Num(2), Num(7)>>
    /\ metrics.min_delay = Num(2)
    /\ metrics.max_delay = Num(7)

\* C7: pct_late is 100 * (number of records with delay > 0) / total for a
\* non-empty collection (null, zero and negative delays count in the
\* denominator only), and 0 for the empty collection; get_metrics computes
\* it so over the table and calculateMetrics over the embedded records.
C7_PctLate ==
    /\ Computed =>
          LET total == Len(df.rows)
              late == Cardinality({i \in DOMAIN Delays : StrictlyPositive(Delays[i])})
          IN IF total = 0 THEN metrics.pct_late = Num(0)
             ELSE /\ metrics.pct_late.k = "num"
                  /\ metrics.pct_late.n * total = 100 * late * metrics.pct_late.d
    /\ pc = "written" =>
          LET data == html.payload
              total == Len(data)
              late == Cardinality({i \in DOMAIN data : StrictlyPositive(data[i][ColDelay])})
              pct == calculateMetrics(data).pct_late
          IN IF total = 0 THEN pct = Num(0)
             ELSE pct.k = "num" /\ pct.n * total = 100 * late * pct.d

\* the specification's example: delays [5, -1, 0, 10] give 50.0
C7_Witness ==
    /\ Computed
    /\ Delays = <<Num(5), Num(-1), Num(0), Num(10)>>
    /\ metrics.pct_late = Num(50)
    /\ pc = "written"
    /\ calculateMetrics(html.payload).pct_late = Num(50)

\* get_metrics has been called (it returned or raised)
AfterGetMetrics == pc \in {"render_dashboard", "written", "crashed"} /\ metrics # NoMetrics

\* C6: on an empty collection of records get_metrics returns, without error,
\* total 0, every average 0.0, pct_late 0, max and min delay 0.0, every group,
\* per-entity and weekly mapping empty and every outlier list empty.  (A
\* collection of records has the numeric fields of a record; C8 is about
\* tables that lack a column.)
C6_EmptyInput ==
    (AfterGetMetrics /\ Len(df.rows) = 0 /\ numeric_cols \subseteq df.cols) =>
        /\ metrics.error = ""
        /\ metrics.total_csrs = 0
        /\ metrics.avg_delay = Num(0)
        /\ metrics.avg_dev_gt30 = Num(0)
        /\ metrics.avg_devlib_gt60 = Num(0)
        /\ metrics.pct_late = Num(0)
        /\ metrics.max_delay = Num(0)
        /\ metrics.min_delay = Num(0)
        /\ \A f \in {"by_estado", "by_pr", "by_tipo", "by_persona", "by_dev",
                     "delay_by_persona", "delay_by_dev", "created_trend", "resolved_trend",
                     "top_late", "top_dev_gt30", "top_devlib_gt60"} :
                DOMAIN metrics[f] = {}

C6_Witness ==
    /\ AfterGetMetrics
    /\ Len(df.rows) = 0
    /\ AllCols \subseteq df.cols
    /\ metrics.error = ""
    /\ metrics.total_csrs = 0

RankedCols == {ColDelay, ColDev30, ColDev60}
TopListOf ==
    (ColDelay :> "top_late") @@ (ColDev30 :> "top_dev_gt30") @@ (ColDev60 :> "top_devlib_gt60")

\* no entry is followed by a larger one
Descending(keys) == \A i, j \in DOMAIN keys : i < j => ~Lt(keys[i], keys[j])

\* the row of df that an entry of a client-side outlier list projects
SourceRow(entry) ==
    df.rows[CHOOSE i \in DOMAIN df.rows : html_escape(df.rows[i][ColClave]) = entry.Clave]

\* C3 (as claimed): every outlier list, of get_metrics and of getTop10, has at
\* most 10 entries, is sorted descending by its ranked field and holds no
\* record whose ranked field is null.
C3_TopListsExcludeNull ==
    /\ Computed =>
          \A col \in RankedCols :
             LET list == metrics[TopListOf[col]] IN
             /\ Len(list) <= 10
             /\ Descending([i \in DOMAIN list |-> list[i][col]])
             /\ \A i \in DOMAIN list : list[i][col].k # "nan"
    /\ pc = "written" =>
          \A col \in RankedCols :
             LET list == getTop10(html.payload, col) IN
             /\ Len(list) <= 10
             /\ Descending([i \in DOMAIN list |-> list[i].value])
             /\ \A i \in DOMAIN list : SourceRow(list[i])[col].k # "nan"

\* the optional columns whose absence or emptiness decides outputs
Lacks(col) == col \notin df.cols \/ AllNull(Column(df, col))
LacksText(col) == col \notin df.cols \/ \A i \in DOMAIN df.rows : df.rows[i][col] = << >>

\* C8 (as claimed): get_metrics never raises, whatever optional columns the
\* preprocessed table lacks or holds only nulls in, and gives the zero or
\* empty default for what it cannot compute.
C8_GetMetricsTotal ==
    AfterGetMetrics =>
        /\ metrics.error = ""
        /\ LacksText(ColEstado) => DOMAIN metrics.by_estado = {}
        /\ LacksText(ColPr) => DOMAIN metrics.by_pr = {}
        /\ LacksText(ColT) => DOMAIN metrics.by_tipo = {}
        /\ LacksText(ColPersona) =>
              DOMAIN metrics.by_persona = {} /\ DOMAIN metrics.delay_by_persona = {}
        /\ LacksText(ColDesarrollador) =>
              DOMAIN metrics.by_dev = {} /\ DOMAIN metrics.delay_by_dev = {}
        /\ Lacks(ColCreada) => DOMAIN metrics.created_trend = {}
        /\ Lacks(ColReal) => DOMAIN metrics.resolved_trend = {}
        /\ Lacks(ColDev30) =>
              /\ metrics.avg_dev_gt30 = Num(0)
              /\ metrics.num_dev_gt30 = 0
              /\ metrics.top_dev_gt30 = << >>
        /\ Lacks(ColDev60) =>
              /\ metrics.avg_devlib_gt60 = Num(0)
              /\ metrics.num_devlib_gt60 = 0
              /\ metrics.top_devlib_gt60 = << >>

\* the cell of the workbook's visible row i, as the source gave it
SourceCell(i, col) == Coerce(load_data(excel).rows[i][col])

\* C10 (as claimed): after preprocess_data every record with both release
\* timestamps has a delay, and where the source gave none it is the whole
\* days from the planned to the actual release, whatever the other records hold.
C10_DelayDerived ==
    (pc = "get_metrics" /\ {ColPlan, ColReal} \subseteq df.cols) =>
        \A i \in DOMAIN df.rows :
            LET r == df.rows[i] IN
            (r[ColPlan].k = "num" /\ r[ColReal].k = "num") =>
                /\ r[ColDelay].k # "nan"
                /\ (ColDelay \notin excel.table.cols \/ SourceCell(i, ColDelay).k = "nan") =>
                      /\ r[ColDelay].k = "num"
                      /\ r[ColDelay].n * SecPerDay <= r[ColReal].n - r[ColPlan].n
                      /\ r[ColReal].n - r[ColPlan].n < (r[ColDelay].n + 1) * SecPerDay

RECURSIVE SumOver(_, _)
\* the sum of f over the set S
SumOver(f, S) ==
    IF S = {} THEN 0
    ELSE LET x == CHOOSE y \in S : TRUE IN f[x] + SumOver(f, S \ {x})
Total(f) == SumOver(f, DOMAIN f)

\* the number of records of df that have an actual release date
Released ==
    IF ColReal \in df.cols
    THEN Cardinality({i \in DOMAIN df.rows : df.rows[i][ColReal].k = "num"})
    ELSE 0

\* the embedded records that have no release date
Unreleased(data) == {i \in DOMAIN data : ~Truthy(data[i], ColReal)}

\* C5 (as claimed): a record without an actual release date is in no bucket
\* of resolved_trend, server-side and client-side; filterData drops it
\* whenever a start or an end bound is set, and it passes the date test when
\* neither is set.
C5_NullReleaseExcluded ==
    /\ Computed => Total(metrics.resolved_trend) = Released
    /\ pc = "written" =>
          /\ Total(getTrend(html.payload, ColReal)) = Released
          /\ \A s \in DateChoices, e \in DateChoices, offset \in Offsets :
                LET c == [NoFilters EXCEPT !.startDate = s, !.endDate = e]
                    view == filterData(html.payload, c, offset)
                IN IF s = EmptyStr /\ e = EmptyStr
                   THEN \A i \in Unreleased(html.payload) : html.payload[i] \in Range(view)
                   ELSE \A i \in Unreleased(html.payload) : html.payload[i] \notin Range(view)

\* the numbers of buckets of a trend that hold each count
CountBag(f) == [n \in {f[l] : l \in DOMAIN f} |-> Cardinality({l \in DOMAIN f : f[l] = n})]

\* two snapshots agree in every numeric field, to one decimal place; the
\* client's group keys are the escaped server keys
SameNumbers(server, client) ==
    /\ server.total_csrs = client.total_csrs
    /\ \A f \in {"avg_delay", "pct_late", "avg_dev_gt30", "avg_devlib_gt60",
                 "max_delay", "min_delay"} : Round1(server[f]) = Round1(client[f])
    /\ server.num_dev_gt30 = client.num_dev_gt30
    /\ server.num_devlib_gt60 = client.num_devlib_gt60
    /\ \A f \in {"by_estado", "by_pr", "by_tipo", "by_persona", "by_dev"} :
          /\ DOMAIN client[f] = {html_escape(v) : v \in DOMAIN server[f]}
          /\ \A v \in DOMAIN server[f] : server[f][v] = client[f][html_escape(v)]
    /\ \A f \in {"delay_by_persona", "delay_by_dev"} :
          /\ DOMAIN client[f] = {html_escape(v) : v \in DOMAIN server[f]}
          /\ \A v \in DOMAIN server[f] :
                Round1(server[f][v]) = Round1(client[f][html_escape(v)])
    /\ \A f \in {"created_trend", "resolved_trend"} : CountBag(server[f]) = CountBag(client[f])

\* C1 (as claimed): for every subset of the embedded records, get_metrics on
\* the subset and calculateMetrics on its payload form agree in every numeric
\* field, to one decimal place.
C1_ServerClientAgree ==
    pc = "written" =>
        \A keep \in SUBSET DOMAIN df.rows :
            SameNumbers(get_metrics([df EXCEPT !.rows = SubSeqAt(df.rows, keep)]),
                        calculateMetrics(SubSeqAt(html.payload, keep)))

\* the delays that are numbers: neither null nor infinite
FiniteDelays == SelectSeq(Delays, IsNum)

C12_MaxDelayIgnoresInf ==
    Computed =>
        IF FiniteDelays = << >> THEN metrics.max_delay = Num(0)
        ELSE /\ metrics.max_delay \in Range(FiniteDelays)
             /\ \A i \in DOMAIN FiniteDelays : Leq(FiniteDelays[i], metrics.max_delay)

\* C13: when the workbook cannot be loaded the run ends at load_data: no
\* later step runs and the document is never written.
C13_LoadFailureWritesNothing ==
    ~excel.readable =>
        /\ pc \in {"load_data", "exited"}
        /\ df = NoTable
        /\ metrics = NoMetrics
        /\ html = NoHtml

\* the run that ended on a workbook it could not read
C13_Witness ==
    /\ ~excel.readable
    /\ pc = "exited"
    /\ html = NoHtml

\* the table preprocess_data returned, which get_metrics was called on
Preprocessed == preprocess_data(load_data(excel))

\* C14 (as claimed): get_metrics leaves its argument as it was, the same
\* columns and the same cells, so the embedded records have exactly the
\* columns that preprocessing produced.
C14_GetMetricsNoSideEffect ==
    /\ (pc \in {"render_dashboard", "written"} /\ Computed) => df = Preprocessed
    /\ pc = "written" =>
          \A i \in DOMAIN html.payload : DOMAIN html.payload[i] = Preprocessed.cols

\* C15: a second get_metrics over the same records (the table as the first
\* call left it, and the table as it was given) returns the snapshot the
\* first call returned, and calculateMetrics over the embedded records is
\* the snapshot of the records alone.
C15_Idempotent ==
    /\ (pc \in {"render_dashboard", "written"} /\ Computed) =>
          /\ get_metrics(df) = metrics
          /\ get_metrics(Preprocessed) = metrics
    /\ pc = "written" =>
          calculateMetrics(html.payload) = calculateMetrics(full_data_dict(df))

\* a second call on a table the first call has added a column to
C15_Witness ==
    /\ pc = "written"
    /\ Computed
    /\ df # Preprocessed
    /\ DOMAIN metrics.created_trend # {}
    /\ Len(metrics.top_late) > 0
    /\ get_metrics(df) = metrics

\* the place in df of the record with the key `clave`
RowIndex(clave) == CHOOSE i \in DOMAIN df.rows : html_escape(df.rows[i][ColClave]) = clave

\* in a list with the ranked values `keys`, taken from the rows `idx` of a
\* column `all`: equal values stand in input order, and a row left out of the
\* list comes, in the input, after the listed rows of the same value
TiesInInputOrder(keys, idx, all) ==
    /\ \A i, j \in DOMAIN keys : (i < j /\ keys[i] = keys[j]) => idx[i] < idx[j]
    /\ \A i \in DOMAIN keys : \A r \in DOMAIN all \ Range(idx) :
          all[r] = keys[i] => idx[i] < r

\* the lists of getTop10 keep equal values in input order
ClientTiesInInputOrder ==
    pc = "written" =>
        \A col \in RankedCols :
           LET list == getTop10(html.payload, col) IN
           TiesInInputOrder([i \in DOMAIN list |-> ParseFloatOr0(list[i], "value")],
                            [i \in DOMAIN list |-> RowIndex(list[i].Clave)],
                            ValuesOf(html.payload, col))

\* C18 (as claimed): in every outlier list, of get_metrics and of getTop10,
\* records with equal ranked values stand in input order, also where the tie
\* decides who takes the tenth place.
C18_StableTies ==
    /\ Computed =>
          \A col \in RankedCols :
             LET list == metrics[TopListOf[col]] IN
             TiesInInputOrder([i \in DOMAIN list |-> list[i][col]],
                              [i \in DOMAIN list |-> RowIndex(html_escape(list[i][ColClave]))],
                              Column(df, col))
    /\ ClientTiesInInputOrder

\* the Monday-to-Sunday calendar week of a timestamp, counted from the week
\* of Monday 2024-12-23 (day 2 is a Monday)
CalendarWeek(ts) == (DayOf(ts) + 5) \div 7

TrendCols == {ColCreada, ColReal}
TrendOf == (ColCreada :> "created_trend") @@ (ColReal :> "resolved_trend")

\* the rows of a table or payload that have a date in the column
Dated(rows, col) == {i \in DOMAIN rows : rows[i][col].k = "num"}

\* the client's getTrend puts two records in one bucket exactly when the
\* server's weekly grouping does
ClientWeeksAgree ==
    pc = "written" =>
        \A col \in TrendCols \cap df.cols :
           \A i, j \in Dated(html.payload, col) :
              (weekStr(html.payload[i][col].n) = weekStr(html.payload[j][col].n))
                 <=> (to_period_W_str(df.rows[i][col]) = to_period_W_str(df.rows[j][col]))

\* C19 (as claimed): each weekly trend has one bucket per Monday-to-Sunday
\* week that holds a dated record, its value the number of records of that
\* week; a record without the date is in no bucket; and getTrend groups the
\* records as the server does.
C19_WeeklyBuckets ==
    /\ Computed =>
          \A col \in TrendCols \cap df.cols :
             LET trend == metrics[TrendOf[col]]
                 dated == Dated(df.rows, col)
                 week(i) == CalendarWeek(df.rows[i][col].n)
                 label(i) == to_period_W_str(df.rows[i][col])
             IN /\ Total(trend) = Cardinality(dated)
                /\ \A i \in dated :
                      /\ label(i) \in DOMAIN trend
                      /\ trend[label(i)] = Cardinality({j \in dated : week(j) = week(i)})
                /\ \A i, j \in dated : (label(i) = label(j)) <=> (week(i) = week(j))
    /\ ClientWeeksAgree

\* C22 (as claimed): in every snapshot of get_metrics min_delay is at most
\* max_delay, also when every delay is zero or negative.
C22_MinAtMostMax ==
    Computed => Leq(metrics.min_delay, metrics.max_delay)

----------------------------------------------------------------------------
(* Properties of the page, checked under Spec. *)

\* C4: from the freshly loaded page, selecting one categorical value and then
\* resetting the filters leaves on display exactly the snapshot the page
\* showed when it had loaded, the snapshot of the whole embedded record set.
C4_SelectThenResetRestores ==
    history.phase = "selected, reset" =>
        /\ shown = history.loaded
        /\ shown.total_csrs = Len(html.payload)

\* a selection that changed the display, undone by the reset
C4_Witness ==
    /\ history.phase = "selected, reset"
    /\ history.selected # history.loaded
    /\ history.selected.total_csrs < shown.total_csrs
    /\ shown = history.loaded

\* the day of an embedded release date
ReleaseDay(d) == DayOf(d[ColReal].n)

\* the filter predicate as claimed: every select is empty or equal to the
\* record's field, and the release day lies within the bounds that are set,
\* the start day and the end day included
InView(d, c) ==
    /\ \A col \in CategoricalCols : c[SelectOf[col]] = << >> \/ d[col] = c[SelectOf[col]]
    /\ c.startDate # EmptyStr => d[ColReal] # EmptyStr /\ c.startDate.n <= ReleaseDay(d)
    /\ c.endDate # EmptyStr => d[ColReal] # EmptyStr /\ ReleaseDay(d) <= c.endDate.n

\* C9 (as claimed): after filterData the view is exactly the embedded records
\* that satisfy the filter predicate, in their order.
C9_ViewIsPredicate ==
    [][(OnChangeSelect \/ OnChangeDate) =>
         currentData' = SelectSeq(originalData, LAMBDA d : InView(d, controls'))]_vars

\* the days of the release dates of the embedded records
ReleaseDays(data) == {ReleaseDay(data[i]) : i \in {j \in DOMAIN data : Truthy(data[j], ColReal)}}
\* the earliest and the latest release date, as a date input shows them
EarliestRelease(data) ==
    IF ReleaseDays(data) = {} THEN EmptyStr
    ELSE Num(CHOOSE x \in ReleaseDays(data) : \A y \in ReleaseDays(data) : x <= y)
LatestRelease(data) ==
    IF ReleaseDays(data) = {} THEN EmptyStr
    ELSE Num(CHOOSE x \in ReleaseDays(data) : \A y \in ReleaseDays(data) : y <= x)

\* C16 (as claimed): after resetFilters, whatever the controls held, the five
\* selects are empty, the date inputs hold the earliest and the latest release
\* date of the embedded records (both empty when there is none), the view is
\* the whole record set and its snapshot is on display.
C16_ResetPostState ==
    [][resetFilters =>
         /\ \A col \in CategoricalCols : controls'[SelectOf[col]] = << >>
         /\ controls'.startDate = EarliestRelease(originalData)
         /\ controls'.endDate = LatestRelease(originalData)
         /\ currentData' = originalData
         /\ shown' = calculateMetrics(originalData)]_vars

\* s is made of rows of t, in the order of t
IsSubSeqOf(s, t) == \E keep \in SUBSET DOMAIN t : s = SubSeqAt(t, keep)

\* C17: no filterData or resetFilters event changes originalData, which stays
\* the embedded payload; the view after each event is a sub-sequence of
\* originalData in its order, and filterData builds it from originalData, not
\* from the view it finds.
C17_OriginalDataImmutable ==
    [][pc = "ready" =>
         /\ originalData' = originalData
         /\ originalData' = html.payload
         /\ IsSubSeqOf(currentData', originalData)
         /\ (OnChangeSelect \/ OnChangeDate) =>
               currentData' = filterData(originalData, controls', tz)]_vars

\* after several events, a view that holds some of the records
C17_Witness ==
    /\ pc = "ready"
    /\ history.phase = "later"
    /\ originalData = html.payload
    /\ currentData # << >>
    /\ Len(currentData) < Len(originalData)
    /\ IsSubSeqOf(currentData, originalData)

\* C20 (as claimed): once the page has loaded, and after every filterData and
\* resetFilters event, the view is what filterData gives for the values the
\* controls show; so a filterData with the controls unchanged drops nothing.
C20_ViewMatchesControls ==
    pc = "ready" => currentData = filterData(originalData, controls, tz)

\* the embedded records whose source value of the field `col` is v
RecordsWith(col, v) ==
    SubSeqAt(originalData, {i \in DOMAIN df.rows : df.rows[i][col] = v})

\* C21 (as claimed): selecting an option v of a select, with the other
\* selects on 'All' and no date bound set, leaves in the view exactly the
\* records whose source value of that field is v, at least one record,
\* whatever characters v holds.
C21_OptionSelectsItsRecords ==
    [][\A col \in CategoricalCols : \A v \in html.options[col] :
          (OnChangeSelect /\ controls' = [NoFilters EXCEPT ![SelectOf[col]] = v]) =>
             /\ currentData' = RecordsWith(col, v)
             /\ currentData' # << >>]_vars

====
